---- MODULE Spec2Model ----
(***************************************************************************)
(* A model of dnsclient.py: the resolver driver of __main__ (one recursive *)
(* query, or the iterative walk), the request header packing, the domain   *)
(* name codec and the resource-record decoder.                             *)
(*                                                                         *)
(* Text handled by the driver (domain names, server addresses) is a TLA+   *)
(* string.  Text handled by the codec is a sequence of byte values, since  *)
(* the codec converts between bytes and characters.                        *)
(***************************************************************************)
EXTENDS Integers, Sequences, FiniteSets, TLC

VARIABLES
    \* ---- resolver driver (__main__) ----
    pc,         \* position of __main__: "main", "bootstrapped", "loop", "exit", "error"
    recursive,  \* the `recursive` flag of __main__
    dns,        \* the `dns` variable: address of the server queried next
    domain,     \* the `domain` variable: name queried next
    type,       \* the `type` variable: requested QueryType
    res,        \* the `res` variable: last parsed response
    sentLog,    \* every datagram handed to sendto, in order
    onScript,   \* history: how many leading responses followed the three-step referral script
    \* ---- codec ----
    job,        \* the call under way: its kind and its arguments
    data,       \* the `data` buffer being decoded
    frames,     \* call stack of DomainName.parse: one [i, dom, omit] per activation
    ret,        \* value of the outermost DomainName.parse once it returned: [name, next]
    mp,         \* the activation of DNSResMsg.parse
    out         \* "idle", "running", "done", or the name of the exception raised

driverVars == <<pc, recursive, dns, domain, type, res, sentLog, onScript>>

codecVars == <<job, data, frames, ret, mp, out>>

vars == <<driverVars, codecVars>>

-----------------------------------------------------------------------------
(* QueryType *)

A == 1
NS == 2
CNAME == 5
MX == 15
AAAA == 28

QueryType == {A, NS, CNAME, MX, AAAA}

-----------------------------------------------------------------------------
(* Bytes and integers as struct, int.to_bytes and the bit operators use them *)

RECURSIVE BitOr(_, _)
BitOr(x, y) ==
    IF x = 0 THEN y
    ELSE IF y = 0 THEN x
    ELSE (IF x % 2 = 1 \/ y % 2 = 1 THEN 1 ELSE 0) + 2 * BitOr(x \div 2, y \div 2)

RECURSIVE BitAnd(_, _)
BitAnd(x, y) ==
    IF x = 0 \/ y = 0 THEN 0
    ELSE (IF x % 2 = 1 /\ y % 2 = 1 THEN 1 ELSE 0) + 2 * BitAnd(x \div 2, y \div 2)

Shl(x, n) == x * 2 ^ n

Shr(x, n) == x \div 2 ^ n

\* int(i).to_bytes(2, 'big'), for 0 <= i < 65536
U16(i) == <<i \div 256, i % 256>>

\* data[i], i counted from 0
At(d, i) == d[i + 1]

\* data[i:j], i and j counted from 0, clamped to the buffer as Python slices are
Slice(d, i, j) ==
    LET hi == IF j < Len(d) THEN j ELSE Len(d)
    IN  IF i >= hi THEN <<>> ELSE SubSeq(d, i + 1, hi)

\* the big-endian unsigned 16-bit field at offset i (struct format '!H')
U16At(d, i) == At(d, i) * 256 + At(d, i + 1)

-----------------------------------------------------------------------------
(* DNSQryHeader *)

HeaderConstruct(id, rd, qdcount) ==
    [ID |-> id, QR |-> 0, OpCode |-> 0, TC |-> 0, RD |-> rd, Z |-> 1, AD |-> 0, NA |-> 0,
     QDCount |-> qdcount, ANcount |-> 0, NScount |-> 0, ARcount |-> 0]

\* the `misc` word of DNSQryHeader.__bytes__
HeaderMisc(h) ==
    LET m1 == BitOr(Shl(h.QR, 4), h.OpCode)
        m2 == BitOr(Shl(m1, 2), h.TC)
        m3 == BitOr(Shl(m2, 1), h.RD)
        m4 == BitOr(Shl(m3, 2), h.Z)
        m5 == BitOr(Shl(m4, 1), h.AD)
        m6 == BitOr(Shl(m5, 1), h.NA)
    IN  Shl(m6, 4)

HeaderBytes(h) ==
    U16(h.ID) \o U16(HeaderMisc(h)) \o U16(h.QDCount)
        \o U16(h.ANcount) \o U16(h.NScount) \o U16(h.ARcount)

\* the header fields DNSResMsg.parse unpacks from the first 12 bytes
ParseHeader(d) ==
    LET misc == U16At(d, 2)
    IN  [ID |-> U16At(d, 0),
         QR |-> BitAnd(misc, 32768) # 0,
         OpCode |-> Shr(BitAnd(misc, 30720), 11),
         AA |-> BitAnd(misc, 1024) # 0,
         TC |-> BitAnd(misc, 512) # 0,
         RD |-> BitAnd(misc, 256) # 0,
         RA |-> BitAnd(misc, 128) # 0,
         Z |-> Shr(BitAnd(misc, 112), 4),
         RCode |-> BitAnd(misc, 15),
         QDCount |-> U16At(d, 4),
         ANCount |-> U16At(d, 6),
         NSCount |-> U16At(d, 8),
         ARCount |-> U16At(d, 10)]

-----------------------------------------------------------------------------
(* DomainName: construction from a string, and __bytes__.  A string is the *)
(* sequence of its character codes.                                        *)

Dot == 46

\* str.split('.')
RECURSIVE Split(_)
Split(s) ==
    IF \A k \in 1..Len(s) : s[k] # Dot THEN <<s>>
    ELSE LET k == CHOOSE j \in 1..Len(s) : s[j] = Dot /\ \A m \in 1..(j - 1) : s[m] # Dot
         IN  <<SubSeq(s, 1, k - 1)>> \o Split(SubSeq(s, k + 1, Len(s)))

DomainName(name) ==
    LET split == Split(name)
    IN  [domain |-> name, split |-> split, meta |-> [k \in 1..Len(split) |-> Len(split[k])]]

RECURSIVE LabelBytes(_, _)
LabelBytes(dn, k) ==
    IF k > Len(dn.meta) THEN <<>>
    ELSE <<dn.meta[k]>> \o dn.split[k] \o LabelBytes(dn, k + 1)

\* DomainName.__bytes__
NameBytes(dn) == LabelBytes(dn, 1) \o <<0>>

\* Query.construct followed by Query.__bytes__
QueryBytes(name, qtype) == NameBytes(DomainName(name)) \o U16(qtype) \o U16(1)

\* the datagram query() builds
RequestBytes(id, rd, name, qtype) ==
    HeaderBytes(HeaderConstruct(id, rd, 1)) \o QueryBytes(name, qtype)

-----------------------------------------------------------------------------
(* DomainName.parse, one activation per stack frame.  A frame holds the    *)
(* cursor i, the text collected so far and the `omit` flag.                *)

Pointer == 192

MaxDepth == 8

Frame(offset) == [i |-> offset, dom |-> <<>>, omit |-> FALSE]

Top == frames[Len(frames)]

InLoop(f) == ~f.omit /\ f.i < Len(data) /\ At(data, f.i) # 0

SetTop(f) == [frames EXCEPT ![Len(frames)] = f]

\* lines 136-141: one label
ParseLabel ==
    /\ out = "running" /\ frames # <<>>
    /\ InLoop(Top) /\ At(data, Top.i) # Pointer
    /\ LET slicelen == At(data, Top.i)
           label == Slice(data, Top.i + 1, Top.i + 1 + slicelen)
       IN  IF \E k \in 1..Len(label) : label[k] >= 128
           THEN out' = "UnicodeDecodeError" /\ frames' = frames
           ELSE /\ frames' = SetTop([Top EXCEPT !.dom = Top.dom \o label \o <<Dot>>,
                                                !.i = Top.i + 1 + slicelen])
                /\ out' = out
    /\ UNCHANGED <<job, data, ret, mp, driverVars>>

\* lines 129-131: a pointer; the target is the single byte after 0xc0
ParsePointer ==
    /\ out = "running" /\ frames # <<>>
    /\ InLoop(Top) /\ At(data, Top.i) = Pointer
    /\ Len(frames) < MaxDepth
    /\ IF Top.i + 1 >= Len(data)
       THEN out' = "IndexError" /\ frames' = frames
       ELSE frames' = Append(frames, Frame(At(data, Top.i + 1))) /\ out' = out
    /\ UNCHANGED <<job, data, ret, mp, driverVars>>

\* lines 142-146, and for a nested activation lines 132-135 of its caller
ParseReturn ==
    /\ out = "running" /\ frames # <<>>
    /\ ~InLoop(Top)
    /\ IF Top.dom = <<>>
       THEN out' = "IndexError" /\ frames' = frames /\ ret' = ret
       ELSE LET name == IF Top.dom[Len(Top.dom)] = Dot
                        THEN SubSeq(Top.dom, 1, Len(Top.dom) - 1) ELSE Top.dom
                next == IF Top.omit THEN Top.i ELSE Top.i + 1
                n == Len(frames)
            IN  IF n = 1
                THEN /\ frames' = <<>>
                     /\ ret' = [name |-> name, next |-> next]
                     /\ out' = IF mp.stage = "idle" THEN "done" ELSE out
                ELSE /\ frames' = [SubSeq(frames, 1, n - 1) EXCEPT
                                     ![n - 1] = [i |-> frames[n - 1].i + 2,
                                                 dom |-> frames[n - 1].dom \o name,
                                                 omit |-> TRUE]]
                     /\ ret' = ret /\ out' = out
    /\ UNCHANGED <<job, data, mp, driverVars>>

\* DomainName(name) and bytes() of it, lines 110-116 and 151-157; the result
\* is then handed to DomainName.parse at offset 0
EncodeName ==
    /\ out = "running" /\ job.kind = "roundtrip" /\ data = <<>>
    /\ data' = NameBytes(DomainName(job.name))
    /\ frames' = <<Frame(0)>>
    /\ UNCHANGED <<job, ret, mp, out, driverVars>>

\* query(), lines 376-382: the request datagram
EncodeRequest ==
    /\ out = "running" /\ job.kind = "request"
    /\ data' = RequestBytes(job.id, job.rd, job.name, job.qtype)
    /\ out' = "done"
    /\ UNCHANGED <<job, frames, ret, mp, driverVars>>

-----------------------------------------------------------------------------
(* DNSResMsg.parse with Query.parse, Answer.parse and RecordData.parse.    *)
(* mp is the activation of DNSResMsg.parse: the stage it is at, the cursor *)
(* i, the unpacked header, the four lists and the record being built.      *)

NoRet == [name |-> <<>>, next |-> 0 - 1]

NoRecordData == [IP |-> <<>>, NS |-> <<>>, CName |-> <<>>, Preference |-> 0, ME |-> <<>>]

NoRecord == [Name |-> <<>>, Type |-> 0, Class |-> 0, TTL |-> 0, RDLength |-> 0,
             RData |-> NoRecordData]

NoHeader == [ID |-> 0, QR |-> FALSE, OpCode |-> 0, AA |-> FALSE, TC |-> FALSE, RD |-> FALSE,
             RA |-> FALSE, Z |-> 0, RCode |-> 0,
             QDCount |-> 0, ANCount |-> 0, NSCount |-> 0, ARCount |-> 0]

IdleParse == [stage |-> "idle", i |-> 0, hdr |-> NoHeader, Queries |-> <<>>, Answers |-> <<>>,
              NS |-> <<>>, Additionals |-> <<>>, cur |-> NoRecord]

\* the list the record being decoded is appended to
Section(m) ==
    IF Len(m.Answers) < m.hdr.ANCount THEN "Answers"
    ELSE IF Len(m.NS) < m.hdr.NSCount THEN "NS"
    ELSE "Additionals"

AppendRecord(m, rr, next) ==
    LET s == Section(m)
    IN  [m EXCEPT !.stage = "next", !.i = next, !.cur = NoRecord,
                  !.Answers = IF s = "Answers" THEN Append(@, rr) ELSE @,
                  !.NS = IF s = "NS" THEN Append(@, rr) ELSE @,
                  !.Additionals = IF s = "Additionals" THEN Append(@, rr) ELSE @]

\* lines 278-288
MsgHeader ==
    /\ out = "running" /\ mp.stage = "header"
    /\ IF Len(data) < 12
       THEN out' = "struct.error" /\ mp' = mp
       ELSE mp' = [mp EXCEPT !.stage = "next", !.i = 12, !.hdr = ParseHeader(data)] /\ out' = out
    /\ UNCHANGED <<job, data, frames, ret, driverVars>>

\* lines 289-304: the loop heads; the next Query.parse or Answer.parse begins
\* with DomainName.parse at the cursor
MsgNext ==
    /\ out = "running" /\ mp.stage = "next"
    /\ IF Len(mp.Queries) < mp.hdr.QDCount
       THEN mp' = [mp EXCEPT !.stage = "qname"] /\ frames' = <<Frame(mp.i)>> /\ out' = out
       ELSE IF Len(mp.Answers) + Len(mp.NS) + Len(mp.Additionals)
                   < mp.hdr.ANCount + mp.hdr.NSCount + mp.hdr.ARCount
       THEN mp' = [mp EXCEPT !.stage = "rrname"] /\ frames' = <<Frame(mp.i)>> /\ out' = out
       ELSE mp' = [mp EXCEPT !.stage = "parsed"] /\ frames' = frames /\ out' = "done"
    /\ ret' = NoRet
    /\ UNCHANGED <<job, data, driverVars>>

\* Query.parse, lines 197-200, and line 292
MsgQuestion ==
    /\ out = "running" /\ mp.stage = "qname" /\ frames = <<>> /\ ret # NoRet
    /\ LET i == ret.next
           raw == Slice(data, i, i + 2)
           qtype == IF Len(raw) = 2 THEN raw[1] * 256 + raw[2]
                    ELSE IF Len(raw) = 1 THEN raw[1] ELSE 0
       IN  IF qtype \notin QueryType
           THEN out' = "ValueError" /\ mp' = mp
           ELSE /\ mp' = [mp EXCEPT !.stage = "next", !.i = i + 4,
                             !.Queries = Append(@, [Name |-> ret.name, Type |-> qtype,
                                                    Class |-> LET c == Slice(data, i + 2, i + 4)
                                                              IN  IF Len(c) = 2 THEN c[1] * 256 + c[2]
                                                                  ELSE IF Len(c) = 1 THEN c[1] ELSE 0])]
                /\ out' = out
    /\ UNCHANGED <<job, data, frames, ret, driverVars>>

\* Answer.parse, lines 237-242, with RecordData.parse, lines 45-69
MsgRecord ==
    /\ out = "running" /\ mp.stage = "rrname" /\ frames = <<>> /\ ret # NoRet
    /\ \E bigEndian \in BOOLEAN :
       LET i == ret.next
       IN  IF i + 10 > Len(data)
           THEN out' = "struct.error" /\ mp' = mp /\ frames' = frames
           ELSE LET rtype == U16At(data, i)
                    rr == [NoRecord EXCEPT !.Name = ret.name, !.Type = rtype,
                               !.Class = U16At(data, i + 2),
                               !.TTL = U16At(data, i + 4) * 65536 + U16At(data, i + 6),
                               !.RDLength = U16At(data, i + 8)]
                    j == i + 10
                IN  IF rtype \notin QueryType
                    THEN out' = "ValueError" /\ mp' = mp /\ frames' = frames
                    ELSE IF rtype \in {A, AAAA}
                    THEN /\ mp' = AppendRecord(mp, [rr EXCEPT !.RData.IP =
                                                       Slice(data, j, j + rr.RDLength)],
                                               j + rr.RDLength)
                         /\ frames' = frames /\ out' = out
                    ELSE IF rtype \in {NS, CNAME}
                    THEN /\ mp' = [mp EXCEPT !.stage = "rdname", !.cur = rr]
                         /\ frames' = <<Frame(j)>> /\ out' = out
                    ELSE IF Len(Slice(data, j, j + 2)) < 2
                    THEN out' = "struct.error" /\ mp' = mp /\ frames' = frames
                    ELSE /\ mp' = [mp EXCEPT !.stage = "rdname",
                                      !.cur = [rr EXCEPT !.RData.Preference =
                                                  IF bigEndian THEN U16At(data, j)
                                                  ELSE At(data, j) + 256 * At(data, j + 1)]]
                         /\ frames' = <<Frame(j + 2)>> /\ out' = out
    /\ ret' = NoRet
    /\ UNCHANGED <<job, data, driverVars>>

\* RecordData.parse, lines 52-53, 56-57, 62-63 and 69, then lines 243 and 296-304
MsgRecordName ==
    /\ out = "running" /\ mp.stage = "rdname" /\ frames = <<>> /\ ret # NoRet
    /\ LET rr == mp.cur
           rdata == IF rr.Type = NS THEN [rr.RData EXCEPT !.NS = ret.name]
                    ELSE IF rr.Type = CNAME THEN [rr.RData EXCEPT !.CName = ret.name]
                    ELSE [rr.RData EXCEPT !.ME = ret.name]
       IN  mp' = AppendRecord(mp, [rr EXCEPT !.RData = rdata], ret.next)
    /\ UNCHANGED <<job, data, frames, ret, out, driverVars>>

-----------------------------------------------------------------------------
(* The calls the codec is exercised on *)

MaxLabel == 63
MaxFill == 300

Ascii(n) == [k \in 1..n |-> 97]

\* a well-formed label sequence on the wire, without its terminator
RECURSIVE WireLabels(_)
WireLabels(labels) ==
    IF labels = <<>> THEN <<>>
    ELSE <<Len(Head(labels))>> \o Head(labels) \o WireLabels(Tail(labels))

WireName(labels) == WireLabels(labels) \o <<0>>

\* a compression pointer to offset t, 0 <= t < 16384
PointerTo(t) == <<192 + t \div 256, t % 256>>

\* the dotted text of a label sequence
RECURSIVE Dotted(_)
Dotted(labels) ==
    IF labels = <<>> THEN <<>>
    ELSE IF Len(labels) = 1 THEN Head(labels)
    ELSE Head(labels) \o <<Dot>> \o Dotted(Tail(labels))

Fill(n) == [k \in 1..n |-> 7]

LabelLists == {<<>>, <<<<97>>>>, <<<<97>>, <<98, 99>>>>, <<<<119, 119, 119>>, <<97>>, <<98, 99>>>>,
               <<Ascii(MaxLabel)>>, <<Ascii(MaxLabel), <<98>>>>}

RoundTripJobs == {[kind |-> "roundtrip", name |-> Dotted(l)] : l \in LabelLists}

CompressedJobs ==
    {[kind |-> "compressed", a |-> a, b |-> b, aOff |-> t] :
        a \in {<<>>, <<<<97>>>>, <<<<97>>, <<98, 99>>>>},
        b \in {<<>>, <<<<100>>>>, <<<<100>>, <<101, 102>>>>},
        t \in {12, 255, 256, MaxFill}}

CycleJobs == {[kind |-> "cycle", buffer |-> b] :
                 b \in {<<192, 0>>, <<192, 2, 192, 0>>, <<1, 97, 192, 0>>, <<1, 97, 192, 2, 0>>}}

RequestJobs ==
    {[kind |-> "request", id |-> id, rd |-> rd, name |-> n, qtype |-> t] :
        id \in {0, 1, 255, 256, 1234, 65534, 65535}, rd \in {0, 1},
        n \in {<<97>>, <<97, 46, 98, 99>>}, t \in QueryType}

SOA == 6

WireRecords ==
    {[type |-> A, rdata |-> <<93, 184, 216, 34>>],
     [type |-> NS, rdata |-> <<2, 110, 115>> \o PointerTo(12)],
     [type |-> CNAME, rdata |-> <<1, 119>> \o PointerTo(12)],
     [type |-> MX, rdata |-> <<0, 10>> \o <<1, 109>> \o PointerTo(12)],
     [type |-> SOA, rdata |-> <<2, 110, 115>> \o PointerTo(12) \o <<0>> \o <<0, 0, 0, 1>>]}

MessageJobs ==
    {[kind |-> "message", answers |-> an, authority |-> ns, additional |-> ar] :
        an \in {<<>>} \cup {<<r>> : r \in {w \in WireRecords : w.type \in {A, CNAME}}},
        ns \in {<<r>> : r \in WireRecords}
                 \cup {<<r, s>> : r \in {w \in WireRecords : w.type = SOA},
                                  s \in {w \in WireRecords : w.type = NS}},
        ar \in {<<>>} \cup {<<r>> : r \in {w \in WireRecords : w.type = A}}}

RecordWire(rr) ==
    PointerTo(12) \o U16(rr.type) \o U16(1) \o <<0, 0, 0, 60>> \o U16(Len(rr.rdata)) \o rr.rdata

RECURSIVE RecordsWire(_)
RecordsWire(rrs) ==
    IF rrs = <<>> THEN <<>> ELSE RecordWire(Head(rrs)) \o RecordsWire(Tail(rrs))

MessageWire(j) ==
    U16(1234) \o U16(33152) \o U16(1) \o U16(Len(j.answers)) \o U16(Len(j.authority))
        \o U16(Len(j.additional))
        \o WireName(<<<<97>>, <<98, 99>>>>) \o U16(A) \o U16(1)
        \o RecordsWire(j.answers) \o RecordsWire(j.authority) \o RecordsWire(j.additional)

\* for a compressed name: where name B starts and where its pointer is
BOffset(j) == j.aOff + Len(WireName(j.a))
PointerOffset(j) == BOffset(j) + Len(WireLabels(j.b))

JobData(j) ==
    CASE j.kind = "compressed" ->
            Fill(j.aOff) \o WireName(j.a) \o WireLabels(j.b) \o PointerTo(j.aOff)
      [] j.kind = "cycle" -> j.buffer
      [] j.kind = "message" -> MessageWire(j)
      [] OTHER -> <<>>

JobOffset(j) == IF j.kind = "compressed" THEN BOffset(j) ELSE 0

Jobs == RoundTripJobs \cup CompressedJobs \cup CycleJobs \cup RequestJobs \cup MessageJobs

NameJob(j) == j.kind \in {"compressed", "cycle"}

IdleJob == [kind |-> "none"]

CodecInit ==
    /\ job \in Jobs
    /\ data = JobData(job)
    /\ frames = IF NameJob(job) THEN <<Frame(JobOffset(job))>> ELSE <<>>
    /\ ret = NoRet
    /\ mp = [IdleParse EXCEPT !.stage = IF job.kind = "message" THEN "header" ELSE "idle"]
    /\ out = "running"
    /\ pc = "idle" /\ recursive = TRUE /\ dns = "" /\ domain = "" /\ type = A
    /\ res = [Answers |-> <<>>, NS |-> <<>>] /\ sentLog = <<>> /\ onScript = 0

CodecNext ==
    \/ EncodeName
    \/ ParseLabel
    \/ ParsePointer
    \/ ParseReturn
    \/ EncodeRequest
    \/ MsgHeader
    \/ MsgNext
    \/ MsgQuestion
    \/ MsgRecord
    \/ MsgRecordName

-----------------------------------------------------------------------------
(* RecordData.__str__ for the record types the driver renders *)

NoRData == [IP |-> <<>>, NS |-> "", CName |-> ""]

DottedQuad(ip) ==
    ToString(ip[1]) \o "." \o ToString(ip[2]) \o "." \o ToString(ip[3]) \o "." \o ToString(ip[4])

RenderRData(rr) ==
    IF rr.Type = A THEN DottedQuad(rr.RData.IP)
    ELSE IF rr.Type = NS THEN rr.RData.NS
    ELSE rr.RData.CName

-----------------------------------------------------------------------------
(* Responses the transport can deliver, as DNSResMsg.parse leaves them.    *)
(* The driver reads only the Answers and NS sections.                      *)

MaxQueries == 4

OwnerNames == {"x.com", "y.net"}
ServerNames == {"ns1.net", "ns2.net"}
Addresses == {<<198, 41, 0, 4>>}
DefaultDns == "114.114.114.114"
RootName == "a.root-servers.net"

Records ==
    {[Name |-> n, Type |-> A, RData |-> [NoRData EXCEPT !.IP = ip]] :
        n \in OwnerNames, ip \in Addresses}
    \cup {[Name |-> p[1], Type |-> CNAME, RData |-> [NoRData EXCEPT !.CName = p[2]]] :
        p \in {q \in OwnerNames \X OwnerNames : q[1] # q[2]}}
    \cup {[Name |-> "x.com", Type |-> NS, RData |-> [NoRData EXCEPT !.NS = t]] :
        t \in ServerNames}

AnswerSections == {<<>>} \cup {<<a>> : a \in Records} \cup {<<a, b>> : a \in Records, b \in Records}
AuthoritySections ==
    {<<>>} \cup {<<a>> : a \in {r \in Records : r.Type = NS \/ (r.Type = A /\ r.Name = "y.net")}}

Responses == [Answers : AnswerSections, NS : AuthoritySections]

NoResponse == [Answers |-> <<>>, NS |-> <<>>]

-----------------------------------------------------------------------------
(* query(): the datagram sent, as its destination, its question and the   *)
(* `rd` argument its header is constructed with (the transaction id is     *)
(* random and left out).  The iterative branch and the recursive branch    *)
(* both call query() without the `recursive` argument, so it takes its     *)
(* default, 1.                                                             *)

RecursiveDefault == 1

Datagram(dnsAddr, targetAddr, qtype, rd) ==
    [to |-> dnsAddr, name |-> targetAddr, qtype |-> qtype, rd |-> rd]

IterativeQuery(dnsAddr, targetAddr, qtype) ==
    Datagram(dnsAddr, targetAddr, qtype, RecursiveDefault)

-----------------------------------------------------------------------------
(* The two termination tests of the iterative branch *)

\* lines 434-435: the test after the first (domain, type) response
FirstEnded(r, d) ==
    /\ r.Answers # <<>>
    /\ r.Answers[1].Name = d

\* the loop's test with `and` in place of `or`
LoopEndedConjoined(r, d, t) ==
    /\ r.Answers # <<>>
    /\ (t = CNAME /\ r.Answers[1].Type # CNAME)
    /\ r.Answers[1].Name = d

\* lines 450-451: the test at the end of every loop iteration
LoopEnded(r, d, t) ==
    /\ r.Answers # <<>>
    /\ (t = CNAME \/ r.Answers[1].Type # CNAME)
    /\ r.Answers[1].Name = d

\* the branch test looking at every answer instead of the first
FollowsAnyCName(r) ==
    \E k \in 1..Len(r.Answers) : r.Answers[k].Type = CNAME

\* line 439: the branch taken by a loop iteration
FollowsCName(r) ==
    /\ r.Answers # <<>>
    /\ r.Answers[1].Type = CNAME

-----------------------------------------------------------------------------
(* The three-step script: a root answer, a referral, a final answer *)

ScriptStep(k, r, d) ==
    CASE k = 1 -> \E n \in 1..Len(r.Answers) : r.Answers[n].Type = A
      [] k = 2 -> r.Answers = <<>> /\ \E n \in 1..Len(r.NS) : r.NS[n].Type = NS
      [] k = 3 -> r.Answers # <<>> /\ r.Answers[1].Type # CNAME /\ r.Answers[1].Name = d
      [] OTHER -> FALSE

Follow(r, d) ==
    LET k == Len(sentLog) + 1
    IN  IF onScript = k - 1 /\ ScriptStep(k, r, d) THEN k ELSE onScript

-----------------------------------------------------------------------------
(* __main__ *)

Init ==
    /\ pc = "main"
    /\ recursive \in BOOLEAN
    /\ dns = DefaultDns
    /\ domain \in {"x.com"}
    /\ type \in {A, CNAME}
    /\ res = NoResponse
    /\ sentLog = <<>>
    /\ onScript = 0
    /\ job = IdleJob /\ data = <<>> /\ frames = <<>> /\ ret = NoRet
    /\ mp = IdleParse /\ out = "idle"

\* lines 417-421
RecursiveQuery ==
    /\ pc = "main" /\ recursive
    /\ \E r \in Responses :
        /\ sentLog' = Append(sentLog, Datagram(dns, domain, type, RecursiveDefault))
        /\ res' = r
        /\ pc' = "exit"
    /\ UNCHANGED <<recursive, dns, domain, type, onScript, codecVars>>

\* lines 422-428
RootLookup ==
    /\ pc = "main" /\ ~recursive
    /\ \E r \in Responses :
        /\ sentLog' = Append(sentLog, IterativeQuery(dns, RootName, A))
        /\ res' = r
        /\ onScript' = Follow(r, RootName)
        /\ IF r.Answers = <<>>
           THEN pc' = "error" /\ dns' = dns
           ELSE pc' = "bootstrapped" /\ dns' = RenderRData(r.Answers[1])
    /\ UNCHANGED <<recursive, domain, type, codecVars>>

\* lines 430-437
FirstQuery ==
    /\ pc = "bootstrapped"
    /\ Len(sentLog) < MaxQueries
    /\ \E r \in Responses :
        /\ sentLog' = Append(sentLog, IterativeQuery(dns, domain, type))
        /\ res' = r
        /\ onScript' = Follow(r, domain)
        /\ pc' = IF FirstEnded(r, domain) THEN "exit" ELSE "loop"
    /\ UNCHANGED <<recursive, dns, domain, type, codecVars>>

\* lines 437-444 and 450-451
FollowCNameStep ==
    /\ pc = "loop"
    /\ FollowsCName(res)
    /\ Len(sentLog) < MaxQueries
    /\ \E r \in Responses :
        LET target == RenderRData(res.Answers[1])
        IN  /\ domain' = target
            /\ sentLog' = Append(sentLog, IterativeQuery(dns, target, type))
            /\ res' = r
            /\ onScript' = Follow(r, target)
            /\ pc' = IF LoopEnded(r, target, type) THEN "exit" ELSE "loop"
    /\ UNCHANGED <<recursive, dns, type, codecVars>>

\* lines 437-438 and 445-451
FollowReferralStep ==
    /\ pc = "loop"
    /\ ~FollowsCName(res)
    /\ res.NS # <<>>
    /\ Len(sentLog) < MaxQueries
    /\ \E r \in Responses :
        LET server == RenderRData(res.NS[1])
        IN  /\ dns' = server
            /\ sentLog' = Append(sentLog, IterativeQuery(server, domain, type))
            /\ res' = r
            /\ onScript' = Follow(r, domain)
            /\ pc' = IF LoopEnded(r, domain, type) THEN "exit" ELSE "loop"
    /\ UNCHANGED <<recursive, domain, type, codecVars>>

\* an empty authority section answered by asking the same server again
StallRequery ==
    /\ pc = "loop"
    /\ ~FollowsCName(res)
    /\ res.NS = <<>>
    /\ Len(sentLog) < MaxQueries
    /\ \E r \in Responses :
        /\ sentLog' = Append(sentLog, IterativeQuery(dns, domain, type))
        /\ res' = r
        /\ onScript' = Follow(r, domain)
        /\ pc' = IF LoopEnded(r, domain, type) THEN "exit" ELSE "loop"
    /\ UNCHANGED <<recursive, dns, domain, type, codecVars>>

\* line 446 with an empty authority section: res.NS[0] raises IndexError
Stall ==
    /\ pc = "loop"
    /\ ~FollowsCName(res)
    /\ res.NS = <<>>
    /\ pc' = "error"
    /\ UNCHANGED <<recursive, dns, domain, type, res, sentLog, onScript, codecVars>>

DriverNext ==
    \/ RecursiveQuery
    \/ RootLookup
    \/ FirstQuery
    \/ FollowCNameStep
    \/ FollowReferralStep
    \/ Stall

Next == DriverNext

Spec == Init /\ [][Next]_vars

CodecSpec == CodecInit /\ [][CodecNext]_vars

-----------------------------------------------------------------------------
(* Properties of the resolver driver, checked under Spec *)

\* the termination check as section 4.4 states it
SpecTerminates(r, d, t) ==
    /\ \E k \in 1..Len(r.Answers) : r.Answers[k].Name = d
    /\ (t = CNAME \/ r.Answers[1].Type # CNAME)

\* the RD bit of the flags word of a datagram's header
RDBit(dgram) == BitAnd(HeaderMisc(HeaderConstruct(0, dgram.rd, 1)), 256) \div 256

\* C1: in iterative mode, after every response to a (domain, type) query, the
\* first one included, the walk stops if and only if the response holds an
\* answer owned by domain and (type is CNAME or the first answer is no CNAME).
C1_StopsIffTerminationCheck ==
    (~recursive /\ pc \in {"loop", "exit"}) =>
        ((pc = "exit") <=> SpecTerminates(res, domain, type))

\* C2: when the transport returns a root answer, then a referral, then a
\* final non-CNAME answer owned by the queried name, the walk sends exactly
\* three queries (root lookup, then the name twice, the last one to the
\* referred server) and ends with the third response as its result.
C2_ScriptedWalk ==
    onScript = 3 =>
        /\ Len(sentLog) = 3
        /\ pc = "exit"
        /\ sentLog[1].name = RootName
        /\ sentLog[2].name = domain
        /\ sentLog[3].name = domain /\ sentLog[3].to = dns
        /\ ScriptStep(3, res, domain)

C2_Witness == onScript = 3 /\ pc = "exit" /\ Len(sentLog) = 3

\* C3: a non-terminating step whose response has no answers and no authority
\* records ends the walk in an error: no query is sent, dns and domain keep
\* their values.
C3_StallEndsWalk ==
    [][(pc = "loop" /\ res.Answers = <<>> /\ res.NS = <<>>) =>
        (pc' = "error" /\ sentLog' = sentLog /\ dns' = dns /\ domain' = domain)]_vars

C3_Witness ==
    pc = "error" /\ Len(sentLog) >= 2 /\ res.Answers = <<>> /\ res.NS = <<>>

\* C9: every loop iteration that sends a query assigns exactly one of domain
\* and dns before sending it: domain takes the CNAME target when the first
\* answer is a CNAME (dns kept), else dns takes the rendered RDATA of the
\* first authority record (domain kept).  The requested type never changes.
C9_OneVariablePerStep ==
    [][/\ type' = type
       /\ (pc = "loop" /\ sentLog' # sentLog) =>
            IF res.Answers # <<>> /\ res.Answers[1].Type = CNAME
            THEN /\ dns' = dns
                 /\ domain' = res.Answers[1].RData.CName
                 /\ sentLog'[Len(sentLog')].name = domain'
            ELSE /\ domain' = domain
                 /\ res.NS # <<>>
                 /\ dns' = RenderRData(res.NS[1])
                 /\ sentLog'[Len(sentLog')].to = dns']_vars

C9_Witness == pc \in {"loop", "exit"} /\ domain = "y.net" /\ dns \in ServerNames

\* C10: recursive mode sends exactly one query, with RD set, to the configured
\* nameserver; iterative mode sends its initial query with RD clear.
C10_RecursionDesired ==
    /\ (recursive /\ pc = "exit") =>
          (Len(sentLog) = 1 /\ sentLog[1].to = DefaultDns /\ RDBit(sentLog[1]) = 1)
    /\ (~recursive /\ sentLog # <<>>) => RDBit(sentLog[1]) = 0

-----------------------------------------------------------------------------
(* Properties of the codec, checked under CodecSpec *)

\* C4: the header of a request carries the given id, QR = 0, OpCode = 0, RD as
\* given, every other flag bit 0, QDCount = 1 and the other counts 0.
C4_RequestHeader ==
    (job.kind = "request" /\ out = "done") =>
        LET h == ParseHeader(data)
        IN  /\ h.ID = job.id
            /\ ~h.QR /\ h.OpCode = 0 /\ ~h.AA /\ ~h.TC /\ ~h.RA /\ h.Z = 0 /\ h.RCode = 0
            /\ h.RD = (job.rd = 1)
            /\ h.QDCount = 1 /\ h.ANCount = 0 /\ h.NSCount = 0 /\ h.ARCount = 0

\* C5: decoding the encoding of a valid name, the root name included, succeeds,
\* gives the name back and returns the length of the encoding; the root name
\* encodes as the single byte 0.
C5_RoundTrip ==
    job.kind = "roundtrip" =>
        /\ (job.name = <<>> /\ data # <<>>) => data = <<0>>
        /\ out # "running" =>
              (out = "done" /\ ret.name = job.name /\ ret.next = Len(data))

\* C6: a name made of labels and a pointer to an earlier well-formed name
\* decodes to its own labels followed by that name's, and the offset returned
\* is the pointer's offset plus 2.
C6_Compression ==
    (job.kind = "compressed" /\ out # "running") =>
        /\ out = "done"
        /\ ret.name = Dotted(job.b \o job.a)
        /\ ret.next = PointerOffset(job) + 2

\* C7: decoding a name dereferences at most as many pointers as the buffer has
\* bytes, also when the pointers form a cycle.
C7_BoundedDereferences ==
    frames # <<>> => Len(frames) - 1 <= Len(data)

\* C8: a record of a type outside QueryType does not make the decode fail: it
\* is kept in its section, in place, with its numeric type, and the records
\* after it are decoded.
RecordTypes(rrs) == [k \in 1..Len(rrs) |-> rrs[k].Type]

WireTypes(rrs) == [k \in 1..Len(rrs) |-> rrs[k].type]

C8_UnknownTypeKept ==
    (job.kind = "message" /\ out # "running") =>
        /\ out = "done"
        /\ RecordTypes(mp.Answers) = WireTypes(job.answers)
        /\ RecordTypes(mp.NS) = WireTypes(job.authority)
        /\ RecordTypes(mp.Additionals) = WireTypes(job.additional)

====
